---- MODULE Spec2Model ----
(***************************************************************************)
(* A model of ontor's OntoEditor (src/src/ontor/ontor.py): the axiom       *)
(* builder (add_axioms), the reasoner orchestration (reasoning) and the    *)
(* interactive repair loop (debug_onto).                                   *)
(*                                                                         *)
(* The Store is the pair (onto, file): the live in-memory ontology and the *)
(* ontology file it is saved to.  Python's None is the empty tuple <<>>    *)
(* for optional numbers and the empty string for optional names, so that   *)
(* the truthiness tests of the code (if axiom[5], any(dpinfo), ...) are    *)
(* modelled by what they do.                                               *)
(***************************************************************************)
EXTENDS Integers, Sequences, FiniteSets, TLC

VARIABLES
    onto,       \* self.onto: the live in-memory Store
    file,       \* the ontology file (self.filename / self.path)
    pc,         \* position of the process
    lastAdd,    \* what the last add_axioms call did
    lastCall,   \* the reasoning call the last step made, if it made one
    loop        \* the locals of the running debug_onto frame

vars == <<onto, file, pc, lastAdd, lastCall, loop>>

----------------------------------------------------------------------------
(* Bounds of the model *)

MaxBatch == 2

\* the largest number a spec field (cardinality, bound, exact value) holds
MaxVal == 1

\* the most lines the user types at one prompt
MaxInputs == 3

----------------------------------------------------------------------------
(* The Store *)

ClassNames == {"A", "B"}

NoClass == [ex |-> FALSE, is_a |-> <<>>, equivalent_to |-> <<>>]

EmptyOnto == [cls |-> [c \in ClassNames |-> NoClass], inferred |-> FALSE]

ClassLink(n) == [t |-> "class", name |-> n]

\* self.onto[name]: the entity of that name in the ontology's namespace, or
\* None.  The Store holds the object property op and the datatype property dp.
Resolve(o, n) ==
    IF n \in ClassNames /\ o.cls[n].ex THEN [k |-> "class", name |-> n]
    ELSE IF n = "op" THEN [k |-> "oprop", name |-> n]
    ELSE IF n = "dp" THEN [k |-> "dprop", name |-> n]
    ELSE [k |-> "none", name |-> ""]

\* types.new_class(name, (parent, )): a new class gets the parent as its
\* is_a; an existing class is returned, extended by a parent it lacks.
NewClass(o, n, parent) ==
    IF o.cls[n].ex
    THEN IF \E i \in 1..Len(o.cls[n].is_a) : o.cls[n].is_a[i] = ClassLink(parent)
         THEN o
         ELSE [o EXCEPT !.cls[n].is_a = Append(@, ClassLink(parent))]
    ELSE [o EXCEPT !.cls[n] = [ex |-> TRUE, is_a |-> <<ClassLink(parent)>>,
                               equivalent_to |-> <<>>]]

----------------------------------------------------------------------------
(* Axiom Builder: add_axioms, _add_restr_to_def, _dp_constraint *)

\* Python truthiness of an optional number (None and 0 are falsy) and of an
\* optional name (None and "" are falsy).
Truthy(v) == v # <<>> /\ v[1] # 0
TStr(s) == s # ""

DpRangeTypes == {"boolean", "float", "integer", "string", "date", "time", "datetime"}

\* dpinfo = axiom[7:13] = [dprange, minex, minin, exact, maxin, maxex]
DpInfo(ax) == <<ax.dtype, ax.minex, ax.minin, ax.exact, ax.maxin, ax.maxex>>

DpTruth(dp) == <<TStr(dp[1]), Truthy(dp[2]), Truthy(dp[3]), Truthy(dp[4]),
                 Truthy(dp[5]), Truthy(dp[6])>>

\* _check_available_vals: exactly the expected (0-based) indices hold values
CheckAvailableVals(dp, expected) ==
    /\ \A i \in expected : DpTruth(dp)[i + 1]
    /\ ~ \E i \in (0..5) \ expected : DpTruth(dp)[i + 1]

Constrained(base, minex, minin, maxin, maxex) ==
    [k |-> "dtype", base |-> base, minex |-> minex, minin |-> minin,
     maxin |-> maxin, maxex |-> maxex]

\* The values a ConstrainedDatatype admits: the facets it was built with
\* (min_exclusive, min_inclusive, max_inclusive, max_exclusive).
Accepts(c, v) ==
    /\ c.minex = <<>> \/ v > c.minex[1]
    /\ c.minin = <<>> \/ v >= c.minin[1]
    /\ c.maxin = <<>> \/ v <= c.maxin[1]
    /\ c.maxex = <<>> \/ v < c.maxex[1]

NoneVal == [k |-> "none"]

\* _dp_constraint: [raised, val]; the lookup self._dp_range_types[dpres[0]]
\* raises KeyError for an unknown datatype name in every branch that matches.
DpConstraint(dp) ==
    LET known == dp[1] \in DpRangeTypes
        r(v) == IF known THEN [raised |-> FALSE, val |-> v]
                ELSE [raised |-> TRUE, val |-> NoneVal]
    IN IF CheckAvailableVals(dp, {0}) THEN r(Constrained(dp[1], <<>>, <<>>, <<>>, <<>>))
       ELSE IF CheckAvailableVals(dp, {0, 3}) THEN r(Constrained(dp[1], <<>>, dp[4], dp[4], <<>>))
       ELSE IF CheckAvailableVals(dp, {0, 1, 4}) THEN r(Constrained(dp[1], dp[2], <<>>, dp[5], <<>>))
       ELSE IF CheckAvailableVals(dp, {0, 1, 5}) THEN r(Constrained(dp[1], dp[2], <<>>, <<>>, dp[6]))
       ELSE IF CheckAvailableVals(dp, {0, 2, 4}) THEN r(Constrained(dp[1], <<>>, dp[3], dp[5], <<>>))
       ELSE IF CheckAvailableVals(dp, {0, 2, 5}) THEN r(Constrained(dp[1], <<>>, dp[3], <<>>, dp[6]))
       ELSE IF CheckAvailableVals(dp, {0, 1}) THEN r(Constrained(dp[1], dp[2], <<>>, <<>>, <<>>))
       ELSE IF CheckAvailableVals(dp, {0, 2}) THEN r(Constrained(dp[1], <<>>, dp[3], <<>>, <<>>))
       ELSE IF CheckAvailableVals(dp, {0, 4}) THEN r(Constrained(dp[1], <<>>, <<>>, dp[5], <<>>))
       ELSE IF CheckAvailableVals(dp, {0, 5}) THEN r(Constrained(dp[1], <<>>, <<>>, <<>>, dp[6]))
       ELSE [raised |-> FALSE, val |-> NoneVal]

\* self._dp_range_types[dprange](exact): int, float and str keep the number,
\* bool maps it to 0/1, and date, time and datetime raise on a single number.
Coerce(dtype, v) ==
    IF dtype \notin DpRangeTypes \/ dtype \in {"date", "time", "datetime"}
    THEN [raised |-> TRUE, val |-> NoneVal]
    ELSE [raised |-> FALSE,
          val |-> [k |-> "lit", base |-> dtype,
                   v |-> IF dtype = "boolean" THEN (IF v = 0 THEN 0 ELSE 1) ELSE v]]

Restr(prop, inv, ctype, card, filler, neg, src) ==
    [t |-> "restr", prop |-> prop, inv |-> inv, ctype |-> ctype, card |-> card,
     filler |-> filler, neg |-> neg, src |-> src]

\* mutant of DpObj: the test of line 270 is missing
DpObj_InvertedAllowed(ax) ==
    LET no(w) == [res |-> w, val |-> NoneVal]
        constraint(c) == IF c.raised THEN no("raise")
                         ELSE IF c.val = NoneVal THEN no("invalid dp constraint")
                         ELSE [res |-> "ok", val |-> c.val]
        value(c) == IF c.raised THEN no("raise") ELSE [res |-> "ok", val |-> c.val]
    IN IF ax.ctype \in {"some", "only"} THEN constraint(DpConstraint(DpInfo(ax)))
       ELSE IF ax.ctype = "value" /\ Truthy(ax.exact)
            THEN value(Coerce(ax.dtype, ax.exact[1]))
       ELSE no("invalid dp constraint")

\* lines 269-284, the filler of a datatype restriction: [res, val] where res
\* is "ok", "raise" or the warning logged.  For exactly, max and min obj is
\* still None at line 277, so the test of line 280 is never reached.
DpObj(ax) ==
    LET no(w) == [res |-> w, val |-> NoneVal]
        constraint(c) == IF c.raised THEN no("raise")
                         ELSE IF c.val = NoneVal THEN no("invalid dp constraint")
                         ELSE [res |-> "ok", val |-> c.val]
        value(c) == IF c.raised THEN no("raise") ELSE [res |-> "ok", val |-> c.val]
    IN IF ax.inv THEN no("dp may not be inverted")
       ELSE IF ax.ctype \in {"some", "only"} THEN constraint(DpConstraint(DpInfo(ax)))
       ELSE IF ax.ctype = "value" /\ Truthy(ax.exact)
            THEN value(Coerce(ax.dtype, ax.exact[1]))
       ELSE no("invalid dp constraint")

\* _add_restr_to_def: [res, ax] where res is "added", "raise" or the warning
\* logged, and ax the restriction appended to current_axioms (when added).
\* src (not in the code) records the class_name of the spec, for the claims.
AddRestrToDef(o, ax) ==
    LET prop == Resolve(o, ax.prop)
        op == Resolve(o, ax.obj)
        dp == DpInfo(ax)
        anyOp == op.k # "none"
        anyDp == \E i \in 1..6 : DpTruth(dp)[i]
        rej(w) == [res |-> w, ax |-> NoneVal]
        \* lines 288-299, once the filler obj is known
        \* Inverse(None) and getattr(None, ...) raise AttributeError
        build(obj) ==
            IF ax.inv /\ prop.k = "none" THEN rej("raise")
            ELSE IF ax.ctype \in {"some", "only", "value"} /\ ~Truthy(ax.card)
                 THEN IF prop.k = "none" THEN rej("raise")
                      ELSE [res |-> "added",
                            ax |-> Restr(ax.prop, ax.inv, ax.ctype, <<>>, obj, ax.neg, ax.cls)]
            ELSE IF ax.ctype \in {"exactly", "max", "min"} /\ Truthy(ax.card)
                 THEN IF prop.k = "none" THEN rej("raise")
                      ELSE [res |-> "added",
                            ax |-> Restr(ax.prop, ax.inv, ax.ctype, ax.card, obj, ax.neg, ax.cls)]
            ELSE rej("unexpected cardinality definition")
        withObj(f) == IF f.res = "ok" THEN build(f.val) ELSE rej(f.res)
    IN IF anyOp /\ ~anyDp THEN build([k |-> "class", name |-> op.name])
       ELSE IF ~anyOp /\ anyDp THEN withObj(DpObj(ax))
       ELSE rej("restriction includes both op and dp")

Unbound == "<unbound>"

\* One iteration of the for loop of add_axioms (lines 231-252) on spec ax,
\* with my the class my_class is bound to (Unbound before the first
\* assignment): [onto, my, noclass, res].
AddAxiom(o, my, ax) ==
    LET hasCls == TStr(ax.cls)
        hasSup == TStr(ax.sup)
        sup == Resolve(o, ax.sup)
        \* lines 232-240
        step1 ==
            IF hasCls /\ hasSup /\ ~ax.eqv THEN
                 IF sup.k # "class" THEN [onto |-> o, my |-> my, raised |-> TRUE]
                 ELSE [onto |-> NewClass(o, ax.cls, ax.sup), my |-> ax.cls, raised |-> FALSE]
            ELSE IF hasCls /\ hasSup /\ ax.eqv THEN
                 LET o1 == NewClass(o, ax.cls, "Thing")
                 IN IF sup.k # "class" THEN [onto |-> o1, my |-> ax.cls, raised |-> TRUE]
                    ELSE [onto |-> [o1 EXCEPT !.cls[ax.cls].equivalent_to =
                                                 Append(@, ClassLink(ax.sup))],
                          my |-> ax.cls, raised |-> FALSE]
            ELSE IF hasCls /\ ~hasSup THEN
                 [onto |-> NewClass(o, ax.cls, "Thing"), my |-> ax.cls, raised |-> FALSE]
            ELSE [onto |-> o, my |-> my, raised |-> FALSE]
        noclass == ~hasCls
        o1 == step1.onto
        my1 == step1.my
        out(oo, res) == [onto |-> oo, my |-> my1, noclass |-> noclass, res |-> res]
        rel == IF ax.eqv THEN "equivalent_to" ELSE "is_a"
    IN IF step1.raised THEN out(o1, "raise")
       \* line 241
       ELSE IF ~TStr(ax.prop) /\ ~TStr(ax.ctype) /\ ~Truthy(ax.card) /\ ~TStr(ax.obj)
            THEN out(o1, "declared")
       \* line 243
       ELSE IF (TStr(ax.prop) /\ TStr(ax.ctype) /\ TStr(ax.obj))
                \/ (TStr(ax.prop) /\ TStr(ax.ctype) /\ TStr(ax.dtype)) THEN
            \* lines 244-247 read my_class
            IF my1 = Unbound THEN out(o1, "raise")
            ELSE LET r == AddRestrToDef(o1, ax)
                 IN IF r.res = "added"
                    THEN out([o1 EXCEPT !.cls[my1][rel] = Append(@, r.ax)], "added")
                    ELSE out(o1, r.res)
       ELSE out(o1, "unexpected input")

\* The for loop of add_axioms from spec i on: [onto, log, raised]; log holds
\* one entry [noclass, res] per spec the loop reached.
RECURSIVE AddLoop(_, _, _, _, _)
AddLoop(o, my, batch, i, log) ==
    IF i > Len(batch) THEN [onto |-> o, log |-> log, raised |-> FALSE]
    ELSE LET s == AddAxiom(o, my, batch[i])
             log1 == Append(log, [noclass |-> s.noclass, res |-> s.res])
         IN IF s.res = "raise" THEN [onto |-> s.onto, log |-> log1, raised |-> TRUE]
            ELSE AddLoop(s.onto, s.my, batch, i + 1, log1)

\* The specs the batches are drawn from.
BaseSpec ==
    [cls |-> "", sup |-> "", prop |-> "", inv |-> FALSE, ctype |-> "", card |-> <<>>,
     obj |-> "", dtype |-> "", minex |-> <<>>, minin |-> <<>>, exact |-> <<>>,
     maxin |-> <<>>, maxex |-> <<>>, neg |-> FALSE, eqv |-> FALSE]

DeclSpecs ==
    { [BaseSpec EXCEPT !.cls = "A"], [BaseSpec EXCEPT !.cls = "B"],
      [BaseSpec EXCEPT !.cls = "A", !.sup = "B"],
      [BaseSpec EXCEPT !.cls = "A", !.sup = "B", !.eqv = TRUE],
      [BaseSpec EXCEPT !.cls = "A", !.sup = "zz"],
      BaseSpec }

ObjSpecs ==
    { [BaseSpec EXCEPT !.cls = c, !.prop = p, !.ctype = kn[1], !.card = kn[2], !.obj = f] :
        c \in {"", "A"}, p \in {"op", "zz"},
        kn \in {<<"some", <<>>>>, <<"min", <<1>>>>, <<"min", <<0>>>>},
        f \in {"B", "zz"} }
    \cup { [BaseSpec EXCEPT !.cls = "A", !.prop = "op", !.ctype = "some", !.obj = "B",
                            !.inv = i, !.neg = g, !.eqv = e] :
             i \in BOOLEAN, g \in BOOLEAN, e \in BOOLEAN }

DataSpecs ==
    { [BaseSpec EXCEPT !.cls = c, !.prop = "dp", !.ctype = d[1], !.dtype = d[2],
                       !.exact = d[3], !.minin = d[4], !.inv = d[5], !.card = d[6]] :
        c \in {"", "A"},
        d \in { <<"some", "integer", <<>>, <<1>>, FALSE, <<>>>>,
                <<"some", "bogus", <<>>, <<1>>, FALSE, <<>>>>,
                <<"value", "integer", <<1>>, <<>>, FALSE, <<>>>>,
                <<"value", "integer", <<0>>, <<>>, FALSE, <<>>>>,
                <<"exactly", "integer", <<>>, <<1>>, FALSE, <<1>>>>,
                <<"some", "integer", <<>>, <<1>>, TRUE, <<>>>> } }

SpecSet == DeclSpecs \cup ObjSpecs \cup DataSpecs

Batches == UNION { [1..n -> SpecSet] : n \in 0..MaxBatch }

\* The Stores add_axioms is called on.
BuilderStores ==
    { EmptyOnto,
      [EmptyOnto EXCEPT !.cls["B"] = [ex |-> TRUE, is_a |-> <<ClassLink("Thing")>>,
                                      equivalent_to |-> <<>>]] }

NoAdd == [called |-> FALSE, batch |-> <<>>, log |-> <<>>, raised |-> FALSE,
          saved |-> FALSE, before |-> EmptyOnto]

\* add_axioms(axiom_tuples): the loop, then self.onto.save (line 253), which
\* an exception raised in the loop skips.
AddAxioms(batch) ==
    /\ pc = "idle"
    /\ ~lastAdd.called
    /\ LET r == AddLoop(onto, Unbound, batch, 1, <<>>)
       IN /\ onto' = r.onto
          /\ file' = IF r.raised THEN file ELSE r.onto
          /\ pc' = IF r.raised THEN "crashed" ELSE "idle"
          /\ lastAdd' = [called |-> TRUE, batch |-> batch, log |-> r.log,
                         raised |-> r.raised, saved |-> ~r.raised, before |-> onto]
    /\ UNCHANGED <<lastCall, loop>>

----------------------------------------------------------------------------
(* The reasoning backend (sync_reasoner_hermit, sync_reasoner_pellet): an   *)
(* external oracle.  A clean run reports the unsatisfiable classes of the   *)
(* snapshot; the fragment modelled is: a class is unsatisfiable when it     *)
(* carries a restriction together with its negation, or a link to Nothing   *)
(* or to an unsatisfiable class.  A run may also raise, with any            *)
(* diagnostic text.                                                         *)

Core(r) == [r EXCEPT !.src = ""]

Axioms(o, c) == o.cls[c].is_a \o o.cls[c].equivalent_to

DirectUnsat(o, c) ==
    /\ o.cls[c].ex
    /\ \E i, j \in 1..Len(Axioms(o, c)) :
         LET a == Axioms(o, c)[i]
             b == Axioms(o, c)[j]
         IN /\ a.t = "restr" /\ b.t = "restr"
            /\ ~a.neg /\ b.neg
            /\ Core(b) = [Core(a) EXCEPT !.neg = TRUE]

RECURSIVE UnsatFrom(_, _, _)
UnsatFrom(o, U, n) ==
    IF n = 0 THEN U
    ELSE UnsatFrom(o,
                   U \cup { c \in ClassNames :
                              /\ o.cls[c].ex
                              /\ \E i \in 1..Len(Axioms(o, c)) :
                                   /\ Axioms(o, c)[i].t = "class"
                                   /\ Axioms(o, c)[i].name \in U \cup {"Nothing"} },
                   n - 1)

Unsat(o) == UnsatFrom(o, { c \in ClassNames : DirectUnsat(o, c) }, Cardinality(ClassNames))

Order == <<"A", "B", "Nothing">>

\* a Python list holding the classes of S
SeqOf(S) == SelectSeq(Order, LAMBDA x : x \in S)

\* Diagnostic text: a sequence of lines; a line is the sequence of its
\* whitespace-separated tokens once its first five characters are cut.
Marker == <<"Explanation(s):">>
Blank == <<>>

NoBlockTexts ==
    { <<>>, <<Marker, <<"op">>>> }

BlockTexts ==
    { <<Marker, <<"A", "subClassOf">>, Blank>>,
      <<Marker, <<"zz">>, Blank>>,
      <<Marker, <<"A">>, <<"B">>, Blank, Marker, <<"A">>, Blank>>,
      <<Marker, <<"op", "some">>, <<"B">>, Blank, <<"A">>, Blank>>,
      <<Marker, Blank, <<"A">>, Blank>>,
      <<Marker, <<"Nothing", "subClassOf">>, <<"B">>, Blank>> }

\* What one run of the backend on snapshot snap may do (lines 589-595).
\* Pellet prints explanations only with debug >= 2, that is debug = True.
BackendOutcomes(snap, reasoner, debug) ==
    { [kind |-> "clean", raw |-> SeqOf(Unsat(snap) \cup extra), text |-> <<>>] :
        extra \in {{}, {"Nothing"}} }
    \cup { [kind |-> "crash", raw |-> <<>>, text |-> t] :
             t \in NoBlockTexts \cup
                   (IF reasoner = "pellet" /\ debug /\ Unsat(snap) # {}
                    THEN BlockTexts ELSE {}) }

\* _extract_pellet_explanation: the blocks matched by
\* "Explanation\(s\): \n(.*?)\n\n" from line i on: the lines after a marker
\* line up to the first line that is followed by a blank line.
RECURSIVE ExtractFrom(_, _)
ExtractFrom(text, i) ==
    IF i > Len(text) THEN {}
    ELSE IF text[i] # Marker THEN ExtractFrom(text, i + 1)
    ELSE LET ends == { k \in (i + 1)..(Len(text) - 1) : text[k + 1] = Blank }
         IN IF ends = {} THEN {}
            ELSE LET k == CHOOSE e \in ends : \A e2 \in ends : e <= e2
                 IN {SubSeq(text, i + 1, k)} \cup ExtractFrom(text, k + 2)

ExtractPelletExplanation(text) == ExtractFrom(text, 1)

\* _analyze_pellet_results, resolving names in the live Store (self.onto):
\* ax[0] raises IndexError on a line without tokens.
AnalyzePelletResults(live, text) ==
    LET expl == ExtractPelletExplanation(text)
        lines == UNION { { b[i] : i \in 1..Len(b) } : b \in expl }
    IN IF expl = {} THEN [ret |-> <<>>, raised |-> FALSE, unparsed |-> TRUE]
       ELSE IF \E l \in lines : l = <<>>
            THEN [ret |-> <<>>, raised |-> TRUE, unparsed |-> FALSE]
       ELSE [ret |-> SeqOf({ l[1] : l \in { m \in lines :
                                              Resolve(live, m[1]).k = "class" } }),
             raised |-> FALSE, unparsed |-> FALSE]

\* lines 583 and 585: the snapshot is loaded from the file into a new World
LoadSnapshot(live, f) == f

\* mutant of RemoveNothing: lines 603-604 are missing
RemoveNothing_Missing(inc) == inc

\* lines 603-604: list.remove takes out the first occurrence
RemoveNothing(inc) ==
    IF \E i \in 1..Len(inc) : inc[i] = "Nothing"
    THEN LET k == CHOOSE i \in 1..Len(inc) :
                    inc[i] = "Nothing" /\ \A j \in 1..(i - 1) : inc[j] # "Nothing"
         IN SubSeq(inc, 1, k - 1) \o SubSeq(inc, k + 1, Len(inc))
    ELSE inc

\* mutant of SaveBranch: the save flag is not looked at
SaveBranch_IgnoresSave(save, inc) == inc = <<>>

\* lines 601 and 605: the save branch is taken
SaveBranch(save, inc) == inc = <<>> /\ save

\* line 597: the crash is analysed rather than retried
AnalyseCrash(reasoner, debug) == reasoner = "pellet" /\ debug

\* reasoning(reasoner, save, debug) with the live Store, the file and the
\* outcomes of the backend runs it makes, in order.  Of the result, trace
\* (the backend runs made, with the arguments of the call that made each),
\* parsed (the diagnostic handed to _analyze_pellet_results, if one was) and
\* raw (the list of the last clean run) are a record kept for the properties.
RECURSIVE Reasoning(_, _, _, _, _, _)
Reasoning(live, f, reasoner, save, debug, outs) ==
    LET snap == LoadSnapshot(live, f)
        out == Head(outs)
        clean == out.kind = "clean"
        snapAfter == IF clean THEN [snap EXCEPT !.inferred = TRUE] ELSE snap
        sub == IF clean
               THEN [ret |-> out.raw, raised |-> FALSE, unparsed |-> FALSE, runs |-> 0,
                     ranOn |-> {}, trace |-> <<>>, parsed |-> <<>>, raw |-> out.raw]
               ELSE IF AnalyseCrash(reasoner, debug)
               THEN LET a == AnalyzePelletResults(live, out.text)
                    IN [ret |-> a.ret, raised |-> a.raised, unparsed |-> a.unparsed,
                        runs |-> 0, ranOn |-> {}, trace |-> <<>>,
                        parsed |-> <<out.text>>, raw |-> <<>>]
               ELSE LET r == Reasoning(live, f, "pellet", FALSE, TRUE, Tail(outs))
                    IN [ret |-> r.ret, raised |-> r.raised, unparsed |-> r.unparsed,
                        runs |-> r.runs, ranOn |-> r.ranOn, trace |-> r.trace,
                        parsed |-> r.parsed, raw |-> r.raw]
        run == [reasoner |-> reasoner, debug |-> debug, save |-> save, crashed |-> ~clean]
        res(ret, o, ff, wrote) ==
            [ret |-> ret, raised |-> sub.raised, unparsed |-> sub.unparsed,
             runs |-> 1 + sub.runs, ranOn |-> {snap} \cup sub.ranOn,
             crashed |-> ~clean, onto |-> o, file |-> ff, wrote |-> wrote,
             trace |-> <<run>> \o sub.trace, parsed |-> sub.parsed, raw |-> sub.raw]
    IN IF sub.raised THEN res(<<>>, live, f, FALSE)
       ELSE IF sub.ret # <<>> THEN res(RemoveNothing(sub.ret), live, f, FALSE)
       ELSE IF SaveBranch(save, sub.ret) THEN res(<<>>, snapAfter, snapAfter, TRUE)
       ELSE res(<<>>, live, f, FALSE)

NoCall == [called |-> FALSE, reasoner |-> "", save |-> FALSE, debug |-> FALSE,
           ret |-> <<>>, raised |-> FALSE, unparsed |-> FALSE, runs |-> 0,
           ranOn |-> {}, crashed |-> FALSE, wrote |-> FALSE,
           trace |-> <<>>, parsed |-> <<>>, raw |-> <<>>,
           ontoBefore |-> EmptyOnto, fileBefore |-> EmptyOnto]

CallRecord(reasoner, save, debug, r) ==
    [called |-> TRUE, reasoner |-> reasoner, save |-> save, debug |-> debug,
     ret |-> r.ret, raised |-> r.raised, unparsed |-> r.unparsed, runs |-> r.runs,
     ranOn |-> r.ranOn, crashed |-> r.crashed, wrote |-> r.wrote,
     trace |-> r.trace, parsed |-> r.parsed, raw |-> r.raw,
     ontoBefore |-> onto, fileBefore |-> file]

\* The outcomes of the backend runs one call of reasoning may meet: the
\* first run, and the run of the retry of line 600 when there is one.
RunOutcomes(f, reasoner, debug) ==
    LET first == BackendOutcomes(f, reasoner, debug)
    IN { <<o1>> : o1 \in { o \in first : o.kind = "clean" \/ AnalyseCrash(reasoner, debug) } }
       \cup { <<o1, o2>> :
                 o1 \in { o \in first : o.kind = "crash" /\ ~AnalyseCrash(reasoner, debug) },
                 o2 \in BackendOutcomes(f, "pellet", TRUE) }

\* A call of reasoning by the user of the class.
ReasoningCall(reasoner, save, debug) ==
    /\ pc = "idle"
    /\ \E outs \in RunOutcomes(file, reasoner, debug) :
         LET r == Reasoning(onto, file, reasoner, save, debug, outs)
         IN /\ onto' = r.onto
            /\ file' = r.file
            /\ pc' = IF r.raised THEN "crashed" ELSE "idle"
            /\ lastCall' = CallRecord(reasoner, save, debug, r)
    /\ UNCHANGED <<lastAdd, loop>>

----------------------------------------------------------------------------
(* Repair Loop: debug_onto, _interactively_delete_axs_by_rel,               *)
(* _bool_user_interaction.  The process blocks at each prompt; an action is *)
(* the code run from one prompt's answer to the next prompt.                *)

Rels == <<"is_a", "equivalent_to">>

NoEvent == [ans |-> "", cls |-> "", rel |-> "", ax |-> NoneVal]

\* The locals of debug_onto, and (first, anyYes, repass, last, fileAtStart)
\* a record of the session kept for the properties.
NoLoop ==
    [reasoner |-> "", assume |-> FALSE, incon |-> <<>>,
     pot |-> [is_a |-> <<>>, equivalent_to |-> <<>>],
     rel |-> 1, count |-> 1, idx |-> 1,
     first |-> "", anyYes |-> FALSE, repass |-> FALSE, last |-> NoEvent,
     fileAtStart |-> EmptyOnto]

\* get_class_restrictions(res_only=True): the Restriction instances of the
\* list; a negated restriction is a Not construct, not a Restriction.
ClassRestrictions(o, c, rel) ==
    SelectSeq(o.cls[c][rel], LAMBDA x : x.t = "restr" /\ ~x.neg)

\* lines 673-678: with assume_correct_taxo the candidates are new lists of
\* restrictions; without it they are the live is_a and equivalent_to lists
\* themselves (PotList), which a deletion changes under the iteration.
PotProblAx(o, incon, assume) ==
    [r \in {"is_a", "equivalent_to"} |->
        [i \in 1..Len(incon) |->
            IF assume THEN ClassRestrictions(o, incon[i], r) ELSE <<>>]]

PotList(lp, o, r, i) ==
    IF lp.assume THEN lp.pot[Rels[r]][i] ELSE o.cls[lp.incon[i]][Rels[r]]

\* The next position (rel, count, idx) of the nested for loops of lines 680
\* and 699-700 that holds a candidate, or rel = 3 when both loops are over.
RECURSIVE NextPrompt(_, _, _, _, _)
NextPrompt(lp, o, r, c, i) ==
    IF r > 2 THEN [rel |-> 3, count |-> 1, idx |-> 1]
    ELSE IF c > Len(lp.incon) THEN NextPrompt(lp, o, r + 1, 1, 1)
    ELSE IF i > Len(PotList(lp, o, r, c)) THEN NextPrompt(lp, o, r, c + 1, 1)
    ELSE [rel |-> r, count |-> c, idx |-> i]

\* list.remove(x): the list without the first element equal to x
RECURSIVE RemoveFirst(_, _)
RemoveFirst(l, x) ==
    IF l = <<>> THEN <<>>
    ELSE IF Head(l) = x THEN Tail(l)
    ELSE <<Head(l)>> \o RemoveFirst(Tail(l), x)

Contains(l, x) == \E i \in 1..Len(l) : l[i] = x

\* mutant of DeleteAxiom: the answer is taken and nothing is removed
DeleteAxiom_KeepsAxiom(o, c, rel, ax) == [onto |-> o, raised |-> FALSE]

\* lines 703-706: [onto, raised]; self.onto[ax.name] is None for a class
\* outside the ontology's namespace (owl:Thing), and list.remove raises
\* ValueError for an element the list does not hold.
DeleteAxiom(o, c, rel, ax) ==
    LET target == IF ax.t = "class"
                  THEN (IF Resolve(o, ax.name).k = "class" THEN ax ELSE NoneVal)
                  ELSE ax
    IN IF Contains(o.cls[c][rel], target)
       THEN [onto |-> [o EXCEPT !.cls[c][rel] = RemoveFirst(@, target)], raised |-> FALSE]
       ELSE [onto |-> o, raised |-> TRUE]

\* mutant of PassEndFile: the pass ends without the save of line 682
PassEndFile_NotSaved(o, f) == f

\* line 682: the file after self.onto.save at the end of a pass
PassEndFile(o, f) == o

\* mutant of AbortFile: the Store is saved before the process exits
AbortFile_Saves(o, f) == o

\* _bool_user_interaction on "q": sys.exit(0) leaves the file as it is
AbortFile(o, f) == f

\* mutant of AfterCheck: the test of line 662 is inverted
AfterCheck_Inverted(ret) == IF ret # <<>> THEN "DONE" ELSE "REPORT"

\* lines 662-665: where debug_onto goes with the list CHECK returned
AfterCheck(ret) == IF ret = <<>> THEN "DONE" ELSE "REPORT"

\* The code from an answer to the next prompt: the remaining iterations of
\* the loops of lines 680-681, then lines 682-683 when they are over.
Continue(lp, o, r, c, i) ==
    LET n == NextPrompt(lp, o, r, c, i)
    IN IF n.rel = 3
       THEN /\ onto' = o
            /\ file' = PassEndFile(o, file)
            /\ pc' = "CHECK"
            /\ loop' = [lp EXCEPT !.rel = 1, !.count = 1, !.idx = 1, !.repass = TRUE,
                                  !.incon = <<>>,
                                  !.pot = [is_a |-> <<>>, equivalent_to |-> <<>>]]
       ELSE /\ onto' = o
            /\ file' = file
            /\ pc' = "INTERACT"
            /\ loop' = [lp EXCEPT !.rel = n.rel, !.count = n.count, !.idx = n.idx]

\* debug_onto(reasoner, assume_correct_taxo) is called
DebugOnto(reasoner, assume) ==
    /\ pc = "idle"
    /\ pc' = "CHECK"
    /\ loop' = [NoLoop EXCEPT !.reasoner = reasoner, !.assume = assume,
                              !.fileAtStart = file]
    /\ lastCall' = NoCall
    /\ UNCHANGED <<onto, file, lastAdd>>

\* CHECK: line 661, self.reasoning(reasoner=reasoner, save=False)
Check ==
    /\ pc = "CHECK"
    /\ \E outs \in RunOutcomes(file, loop.reasoner, FALSE) :
         LET r == Reasoning(onto, file, loop.reasoner, FALSE, FALSE, outs)
         IN /\ onto' = r.onto
            /\ file' = r.file
            /\ lastCall' = CallRecord(loop.reasoner, FALSE, FALSE, r)
            /\ pc' = IF r.raised THEN "crashed" ELSE AfterCheck(r.ret)
            /\ loop' = [loop EXCEPT !.incon = r.ret]
    /\ UNCHANGED lastAdd

\* REPORT: the answer to "Show further information?" (line 666), the verbose
\* pass on a fresh snapshot (lines 667-671) and the candidates (673-678)
Report(ans) ==
    /\ pc = "REPORT"
    /\ LET lp == [loop EXCEPT !.first = IF @ = "" THEN ans ELSE @,
                              !.last = [NoEvent EXCEPT !.ans = ans],
                              !.pot = PotProblAx(onto, loop.incon, loop.assume)]
       IN CASE ans = "q" ->
                 /\ pc' = "ABORTED"
                 /\ file' = AbortFile(onto, file)
                 /\ onto' = onto
                 /\ loop' = [lp EXCEPT !.pot = loop.pot]
            [] ans = "n" -> Continue(lp, onto, 1, 1, 1)
            [] ans = "y" ->
                 \E out \in BackendOutcomes(file, "pellet", TRUE) :
                    IF out.kind = "crash"
                    THEN /\ pc' = "crashed"
                         /\ loop' = [lp EXCEPT !.pot = loop.pot]
                         /\ UNCHANGED <<onto, file>>
                    ELSE Continue(lp, onto, 1, 1, 1)
    /\ lastCall' = NoCall
    /\ UNCHANGED lastAdd

\* INTERACT: the answer to "Delete ... axiom?" for the candidate at
\* (rel, count, idx), lines 701-706
Interact(ans) ==
    /\ pc = "INTERACT"
    /\ LET c == loop.incon[loop.count]
           rel == Rels[loop.rel]
           ax == PotList(loop, onto, loop.rel, loop.count)[loop.idx]
           lp == [loop EXCEPT !.first = IF @ = "" THEN ans ELSE @,
                              !.last = [ans |-> ans, cls |-> c, rel |-> rel, ax |-> ax]]
       IN CASE ans = "q" ->
                 /\ pc' = "ABORTED"
                 /\ file' = AbortFile(onto, file)
                 /\ onto' = onto
                 /\ loop' = lp
            [] ans = "n" -> Continue(lp, onto, loop.rel, loop.count, loop.idx + 1)
            [] ans = "y" ->
                 LET d == DeleteAxiom(onto, c, rel, ax)
                 IN IF d.raised
                    THEN /\ pc' = "crashed"
                         /\ loop' = lp
                         /\ UNCHANGED <<onto, file>>
                    ELSE Continue([lp EXCEPT !.anyYes = TRUE], d.onto,
                                  loop.rel, loop.count, loop.idx + 1)
    /\ lastCall' = NoCall
    /\ UNCHANGED lastAdd

\* debug_onto returns after "No inconsistencies detected." (line 663)
Return ==
    /\ pc = "DONE"
    /\ pc' = "idle"
    /\ loop' = NoLoop
    /\ lastCall' = NoCall
    /\ UNCHANGED <<onto, file, lastAdd>>

----------------------------------------------------------------------------
(* Specifications *)

ThingLink == ClassLink("Thing")
FillerB == [k |-> "class", name |-> "B"]
R1 == Restr("op", FALSE, "some", <<>>, FillerB, FALSE, "A")
N1 == [R1 EXCEPT !.neg = TRUE]
S1 == Restr("op", FALSE, "only", <<>>, FillerB, FALSE, "A")
RB == Restr("op", FALSE, "some", <<>>, FillerB, FALSE, "B")
NB == [RB EXCEPT !.neg = TRUE]

\* The ontology files debug_onto and reasoning are run on.
InitOntos ==
    { [cls |-> [c \in ClassNames |->
                  IF c = "A" THEN [ex |-> TRUE, is_a |-> a, equivalent_to |-> eb[1]]
                  ELSE [ex |-> TRUE, is_a |-> eb[2], equivalent_to |-> <<>>]],
       inferred |-> FALSE] :
        a \in { <<ThingLink>>, <<ThingLink, R1, N1>>, <<ThingLink, R1, S1>>,
                <<ClassLink("B"), R1>> },
        eb \in { << <<>>, <<ThingLink>> >>, << <<N1>>, <<ThingLink, RB, NB>> >> } }

Init ==
    /\ file \in InitOntos
    /\ onto = file
    /\ pc = "idle"
    /\ lastAdd = NoAdd
    /\ lastCall = NoCall
    /\ loop = NoLoop

Next ==
    \/ \E reasoner \in {"hermit", "pellet"}, save \in BOOLEAN, debug \in BOOLEAN :
         ReasoningCall(reasoner, save, debug)
    \/ \E reasoner \in {"hermit", "pellet"}, assume \in BOOLEAN :
         DebugOnto(reasoner, assume)
    \/ Check
    \/ \E ans \in {"y", "n", "q"} : Report(ans)
    \/ \E ans \in {"y", "n", "q"} : Interact(ans)
    \/ Return

Spec == Init /\ [][Next]_vars

\* The process keeps running and the user keeps answering.
FairSpec == Spec /\ WF_vars(Next)

BuilderInit ==
    /\ file \in BuilderStores
    /\ onto = file
    /\ pc = "idle"
    /\ lastAdd = NoAdd
    /\ lastCall = NoCall
    /\ loop = NoLoop

BuilderNext == pc = "idle" /\ ~lastAdd.called /\ \E batch \in Batches : AddAxioms(batch)

BuilderSpec == BuilderInit /\ [][BuilderNext]_vars

\* One spec at a time: add_axioms on a batch of one spec, drawn from every
\* combination of the restriction fields.
Vals == {<<>>} \cup { <<v>> : v \in 0..MaxVal }

Kinds == {"some", "only", "value", "exactly", "max", "min"}

ObjRestrSpecs ==
    { [BaseSpec EXCEPT !.cls = "A", !.prop = "op", !.obj = "B", !.inv = i,
                       !.ctype = k, !.card = n, !.neg = g] :
        i \in BOOLEAN, k \in Kinds, n \in Vals, g \in BOOLEAN }

DataRestrSpecs ==
    { [BaseSpec EXCEPT !.cls = c, !.prop = "dp", !.obj = f, !.inv = i, !.ctype = k,
                       !.card = n, !.dtype = d, !.minex = b[1], !.minin = b[2],
                       !.exact = b[3], !.maxin = b[4], !.maxex = b[5]] :
        c \in {"", "A"}, f \in {"", "B"}, i \in BOOLEAN, k \in Kinds,
        n \in {<<>>, <<1>>}, d \in {"integer", "boolean", "bogus"},
        b \in [1..5 -> Vals] }

RestrSpecs == ObjRestrSpecs \cup DataRestrSpecs

RestrInit ==
    /\ file = [EmptyOnto EXCEPT !.cls["B"] = [ex |-> TRUE, is_a |-> <<ClassLink("Thing")>>,
                                              equivalent_to |-> <<>>]]
    /\ onto = file
    /\ pc = "idle"
    /\ lastAdd \in { [NoAdd EXCEPT !.batch = <<s>>] : s \in RestrSpecs }
    /\ lastCall = NoCall
    /\ loop = NoLoop

RestrNext == pc = "idle" /\ ~lastAdd.called /\ AddAxioms(lastAdd.batch)

RestrSpec == RestrInit /\ [][RestrNext]_vars

----------------------------------------------------------------------------
(* _bool_user_interaction on its own: one question, and the lines the user  *)
(* types at it (loop.inputs, the lines not read yet).  Report and Interact  *)
(* above take the answer it returns.                                        *)

\* mutant of ValidInputs: the test of line 719 ignores case
ValidInputs_AnyCase == {"y", "n", "q", "Y"}

\* line 719: ["y", "n", "q"]
ValidInputs == {"y", "n", "q"}

TypedLines == {"y", "n", "q", "Y", "no"}

\* the exit code of sys.exit(0), line 726
QuitExitCode == 0

\* the exit code of a process whose session ended at "No inconsistencies
\* detected." and ran to the end of the script
SuccessExitCode == 0

NoPrompt == [inputs |-> <<>>, asked |-> 0, ans |-> "", exit |-> <<>>]

\* lines 719-721: a line that is not valid prints "invalid choice" and asks again
Reprompt ==
    /\ pc = "PROMPT" /\ loop.inputs # <<>>
    /\ Head(loop.inputs) \notin ValidInputs
    /\ loop' = [loop EXCEPT !.inputs = Tail(@), !.asked = @ + 1]
    /\ UNCHANGED <<pc, onto, file, lastAdd, lastCall>>

\* lines 722-723: "y" and "n" are returned as True and False
Answered ==
    /\ pc = "PROMPT" /\ loop.inputs # <<>>
    /\ Head(loop.inputs) \in ValidInputs \ {"q"}
    /\ pc' = "ANSWERED"
    /\ loop' = [loop EXCEPT !.inputs = Tail(@), !.ans = Head(loop.inputs)]
    /\ UNCHANGED <<onto, file, lastAdd, lastCall>>

\* lines 724-726: "q" ends the process
Quit ==
    /\ pc = "PROMPT" /\ loop.inputs # <<>>
    /\ Head(loop.inputs) = "q"
    /\ pc' = "ABORTED"
    /\ loop' = [loop EXCEPT !.inputs = Tail(@), !.ans = "q", !.exit = <<QuitExitCode>>]
    /\ UNCHANGED <<onto, file, lastAdd, lastCall>>

PromptInit ==
    /\ file \in InitOntos
    /\ onto = file
    /\ pc = "PROMPT"
    /\ loop \in { [NoPrompt EXCEPT !.inputs = ins, !.asked = 1] :
                    ins \in UNION { [1..n -> TypedLines] : n \in 1..MaxInputs } }
    /\ lastAdd = NoAdd
    /\ lastCall = NoCall

PromptNext == Reprompt \/ Answered \/ Quit

PromptSpec == PromptInit /\ [][PromptNext]_vars

----------------------------------------------------------------------------
(* Properties *)

\* C1: a call of reasoning with save = False leaves the live Store and the
\* file as they were, whatever the backend did, and the backend ran only on
\* the snapshot loaded from the file.
C1_NoPersistNoChange ==
    (lastCall.called /\ ~lastCall.save) =>
        /\ onto = lastCall.ontoBefore
        /\ file = lastCall.fileBefore
        /\ ~lastCall.wrote
        /\ lastCall.ranOn = {lastCall.fileBefore}

C1_Witness ==
    /\ lastCall.called /\ ~lastCall.save
    /\ lastCall.crashed /\ lastCall.runs = 2 /\ lastCall.ret = <<>>

\* C2: an unparsed crash of the explainable backend is returned as something
\* other than the empty list a consistent Store is returned as.
C2_UnparsedIsDistinct ==
    (lastCall.called /\ lastCall.unparsed) => lastCall.ret # <<>>

\* C3: the loop is at DONE only after a CHECK that did not end in an unparsed
\* crash diagnostic.
C3_DoneOnlyAfterCleanCheck ==
    pc = "DONE" => (lastCall.called /\ ~lastCall.unparsed)

\* C4: reasoning writes the file only when its backend completed normally,
\* nothing is unsatisfiable and save is set.
C4_WriteOnlyOnCleanSuccess ==
    (lastCall.called /\ lastCall.wrote) =>
        (~lastCall.crashed /\ lastCall.ret = <<>> /\ lastCall.save)

C6_AbortStopsAndKeepsFile ==
    [][ /\ (pc' = "ABORTED" /\ pc # "ABORTED") =>
              (loop'.last.ans = "q" /\ onto' = onto /\ file' = file)
        /\ (pc = "ABORTED") => (vars' = vars)
        /\ (pc' = "ABORTED" /\ loop'.first = "q") => file' = loop'.fileAtStart ]_vars

C6_Witness ==
    pc = "ABORTED" /\ loop.first = "q" /\ Unsat(file) # {}

C8_PersistBeforeRecheck ==
    [][ /\ (pc \in {"REPORT", "INTERACT"} /\ pc' = "CHECK") => file' = onto'
        /\ (pc = "CHECK" /\ Unsat(file) = {}) => pc' = "DONE" ]_vars

C8_Witness ==
    /\ pc = "DONE" /\ loop.anyYes /\ loop.repass
    /\ Unsat(loop.fileAtStart) # {}
    /\ lastCall.called /\ ~lastCall.crashed

\* C9: add_axioms never raises on a rejected spec: it reaches every spec of
\* the batch and saves the Store at the end.
C9_RejectionNeverRaises ==
    lastAdd.called =>
        /\ ~lastAdd.raised
        /\ Len(lastAdd.log) = Len(lastAdd.batch)
        /\ lastAdd.saved /\ file = onto

\* C10: every restriction in the Store sits on the class named by the spec
\* that introduced it (a spec that names no class adds none).
C10_NoClassSpecAttachesNothing ==
    \A c \in ClassNames : \A rel \in {"is_a", "equivalent_to"} :
        \A i \in 1..Len(onto.cls[c][rel]) :
            onto.cls[c][rel][i].t = "restr" => onto.cls[c][rel][i].src = c

\* The restrictions the Store holds
StoreRestrs(o) ==
    UNION { { o.cls[c][rel][i] : i \in 1..Len(o.cls[c][rel]) } :
              c \in ClassNames, rel \in {"is_a", "equivalent_to"} }

QualifiedKinds == {"exactly", "max", "min"}

\* C11: no restriction of the Store with a datatype filler has an inverted
\* property or a kind in {exactly, max, min}; a spec with a datatype name
\* that is inverted, or whose kind is in {exactly, max, min}, is rejected
\* and adds no restriction, whatever its other fields are.
C11_NoInvertedOrQualifiedDp ==
    /\ \A r \in StoreRestrs(onto) :
          (r.t = "restr" /\ r.filler.k \in {"dtype", "lit"}) =>
              (~r.inv /\ r.ctype \notin QualifiedKinds)
    /\ (lastAdd.called /\ lastAdd.batch[1].dtype # ""
          /\ (lastAdd.batch[1].inv \/ lastAdd.batch[1].ctype \in QualifiedKinds)) =>
              /\ lastAdd.log[1].res # "added"
              /\ StoreRestrs(onto) = StoreRestrs(lastAdd.before)

C11_Witness ==
    /\ lastAdd.called /\ lastAdd.batch[1].dtype = "integer"
    /\ lastAdd.batch[1].inv /\ lastAdd.batch[1].ctype = "value"
    /\ lastAdd.batch[1].exact = <<1>>
    /\ lastAdd.log[1].res = "dp may not be inverted"
    /\ onto.cls["A"].ex

\* The bound fields a spec supplies (fields that are not None), and the ten
\* combinations of them _dp_constraint admits.
Supplied(ax) ==
    { n \in {"minex", "minin", "exact", "maxin", "maxex"} : ax[n] # <<>> }

AdmittedCombos ==
    { {}, {"exact"}, {"minex", "maxin"}, {"minex", "maxex"}, {"minin", "maxin"},
      {"minin", "maxex"}, {"minex"}, {"minin"}, {"maxin"}, {"maxex"} }

\* v is within the bounds the spec supplies
WithinSupplied(ax, v) ==
    /\ ax.minex = <<>> \/ v > ax.minex[1]
    /\ ax.minin = <<>> \/ v >= ax.minin[1]
    /\ ax.exact = <<>> \/ v = ax.exact[1]
    /\ ax.maxin = <<>> \/ v <= ax.maxin[1]
    /\ ax.maxex = <<>> \/ v < ax.maxex[1]

\* a spec for `dp some|only integer[bounds]` on class A
IsBoundsSpec(ax) ==
    /\ ax.cls = "A" /\ ax.obj = "" /\ ax.prop = "dp" /\ ~ax.inv
    /\ ax.ctype \in {"some", "only"} /\ ax.card = <<>> /\ ax.dtype = "integer"
    /\ Supplied(ax) \in AdmittedCombos

\* C12: the constraint _dp_constraint builds carries exactly the bounds
\* supplied, for each of the ten admitted combinations and every bound
\* value: it admits the values within the supplied bounds and no others
\* (from min_inclusive = 0 and max_exclusive = 1 it admits 0, not -1, not 1).
C12_ConstraintCarriesBounds ==
    (lastAdd.called /\ IsBoundsSpec(lastAdd.batch[1])) =>
        LET ax == lastAdd.batch[1]
            l == onto.cls["A"].is_a
        IN /\ lastAdd.log[1].res = "added"
           /\ Len(l) = 2
           /\ l[2].filler.k = "dtype"
           /\ \A v \in (0 - 1)..(MaxVal + 1) :
                 Accepts(l[2].filler, v) <=> WithinSupplied(ax, v)

\* a backend run of the explainable backend with explanations on
Explainable(run) == run.reasoner = "pellet" /\ run.debug

\* the runs of one call: at most two; a crash of a run that is not
\* Explainable is followed by exactly one retry, pellet with debug = True
\* and save = False; a crash of an Explainable run is parsed, not retried
SingleEscalation(c) ==
    LET t == c.trace
        last == t[Len(t)]
    IN /\ Len(t) \in {1, 2}
       /\ (t[1].crashed /\ ~Explainable(t[1])) =>
             (Len(t) = 2 /\ Explainable(t[2]) /\ ~t[2].save)
       /\ Len(t) = 2 => (t[1].crashed /\ ~Explainable(t[1]))
       /\ (last.crashed /\ Explainable(last)) => c.parsed # <<>>
       /\ c.parsed # <<>> => (last.crashed /\ Explainable(last))

\* C13: one call of reasoning runs the backend at most twice, escalates at
\* most once as above, and always returns.
C13_AtMostTwoRunsAndReturns ==
    lastCall.called => (SingleEscalation(lastCall) /\ ~lastCall.raised)

\* the elements of a list
Elems(l) == { l[i] : i \in 1..Len(l) }

\* C14: no list returned by reasoning holds owl:Nothing, whether it comes
\* from a clean run, from the escalated retry or from explanation parsing.
C14_NothingNeverReturned ==
    (lastCall.called /\ ~lastCall.raised) => "Nothing" \notin Elems(lastCall.ret)

\* a clean run listed Nothing among unsatisfiable classes that are returned
C14_Witness ==
    /\ lastCall.called /\ ~lastCall.raised
    /\ "Nothing" \in Elems(lastCall.raw) /\ lastCall.ret # <<>>

\* the classes of Store o named by the first token of a line of a block of
\* diagnostic text
NamedClasses(o, text) ==
    { n \in ClassNames :
        /\ o.cls[n].ex
        /\ \E b \in ExtractPelletExplanation(text) :
             \E i \in 1..Len(b) : Len(b[i]) >= 1 /\ b[i][1] = n }

\* C15: when reasoning escalates from hermit to pellet and the crash text
\* of the retry holds explanation blocks, the list returned holds exactly
\* the classes of the Store named by the first token of a block line, each
\* once.
C15_ReportIsNamedClasses ==
    (/\ lastCall.called /\ Len(lastCall.trace) = 2
     /\ lastCall.trace[1].reasoner = "hermit"
     /\ lastCall.parsed # <<>>
     /\ ExtractPelletExplanation(lastCall.parsed[1]) # {}) =>
        /\ ~lastCall.raised
        /\ Elems(lastCall.ret) = NamedClasses(lastCall.ontoBefore, lastCall.parsed[1])
        /\ Cardinality(Elems(lastCall.ret)) = Len(lastCall.ret)

\* a line other than exactly y, n, q changes nothing and the question is
\* asked again
InvalidReprompts ==
    (pc = "PROMPT" /\ loop.inputs # <<>> /\ Head(loop.inputs) \notin {"y", "n", "q"}) =>
        /\ pc' = "PROMPT" /\ loop'.asked = loop.asked + 1
        /\ loop'.ans = loop.ans /\ loop'.exit = loop.exit
        /\ onto' = onto /\ file' = file

\* C16 as claimed: "q" ends the process with an exit code other than the
\* one of a session that ends successfully, and a line other than exactly
\* y, n, q changes nothing and is followed by the question again.
C16_QuitCodeDiffersFromSuccess ==
    [][ /\ (pc' = "ABORTED" /\ pc # "ABORTED") => loop'.exit # <<SuccessExitCode>>
        /\ InvalidReprompts ]_vars

\* C16 as the code has it: "q" ends the process by sys.exit(0), the exit
\* code of a session that ends successfully; the rest as claimed.
C16_QuitExitsZero ==
    [][ /\ (pc' = "ABORTED" /\ pc # "ABORTED") =>
              (Head(loop.inputs) = "q" /\ loop'.exit = <<0>>
               /\ loop'.exit = <<SuccessExitCode>>)
        /\ (pc = "PROMPT" /\ loop.inputs # <<>> /\ Head(loop.inputs) = "q") =>
              pc' = "ABORTED"
        /\ InvalidReprompts ]_vars

\* "q" was typed after a line that was not valid
C16_Witness ==
    pc = "ABORTED" /\ loop.asked >= 2 /\ loop.exit = <<0>>

\* the place of the list of class count under relation rel in the order of
\* the pass: is_a of every class, then equivalent_to of every class
PlaceOf(lp, r, c) == (r - 1) * Len(lp.incon) + c

\* the candidate lists between two places of the pass hold nothing
NothingBetween(lp, o, from, to) ==
    \A r \in 1..2 : \A c \in 1..Len(lp.incon) :
        (from < PlaceOf(lp, r, c) /\ PlaceOf(lp, r, c) < to) => PotList(lp, o, r, c) = <<>>

\* C17: in a pass, the answer to a candidate is followed by the prompt for
\* the next candidate of the same list, as the list was when the answer was
\* given; a list is left only after its last candidate, for the first
\* candidate of the next list that holds one (is_a lists, then
\* equivalent_to lists), or for the end of the pass: no candidate is left
\* out and none is shown twice, whatever was deleted.
C17_EveryCandidateOnce ==
    [][ (pc = "INTERACT" /\ pc' \in {"INTERACT", "CHECK"}) =>
          LET l == PotList(loop, onto, loop.rel, loop.count)
              here == PlaceOf(loop, loop.rel, loop.count)
          IN IF pc' = "INTERACT" /\ loop'.rel = loop.rel /\ loop'.count = loop.count
             THEN /\ loop.idx < Len(l)
                  /\ PotList(loop', onto', loop'.rel, loop'.count)[loop'.idx] = l[loop.idx + 1]
             ELSE /\ loop.idx = Len(l)
                  /\ IF pc' = "INTERACT"
                     THEN /\ loop'.idx = 1
                          /\ here < PlaceOf(loop, loop'.rel, loop'.count)
                          /\ NothingBetween(loop, onto', here,
                                            PlaceOf(loop, loop'.rel, loop'.count))
                     ELSE NothingBetween(loop, onto', here, 2 * Len(loop.incon) + 1) ]_vars

\* a spec `op kind [n] B` on class A, not negated
IsObjSpec(ax) ==
    /\ ax.cls = "A" /\ ax.prop = "op" /\ ax.obj = "B" /\ ax.dtype = "" /\ ~ax.neg

\* C18: for a spec with an object filler, a kind in {some, only, value}
\* without a number adds a unary restriction; a kind in {exactly, max, min}
\* with a number n >= 0 adds a qualified-cardinality restriction with
\* number n; every other pairing is rejected and adds nothing.
C18_DispatchOnKind ==
    (lastAdd.called /\ IsObjSpec(lastAdd.batch[1])) =>
        LET ax == lastAdd.batch[1]
            l == onto.cls["A"].is_a
            added == /\ lastAdd.log[1].res = "added" /\ Len(l) = 2
                     /\ l[2] = Restr("op", ax.inv, ax.ctype, ax.card, FillerB, FALSE, "A")
            nothing == lastAdd.log[1].res \notin {"added", "raise"} /\ Len(l) = 1
        IN IF ax.ctype \in {"some", "only", "value"} /\ ax.card = <<>> THEN added
           ELSE IF ax.ctype \in QualifiedKinds /\ ax.card # <<>> THEN added
           ELSE nothing

\* a spec `dp value v` with datatype integer or boolean on class A
IsValueSpec(ax) ==
    /\ ax.cls = "A" /\ ax.prop = "dp" /\ ax.obj = "" /\ ~ax.inv /\ ~ax.neg
    /\ ax.ctype = "value" /\ ax.card = <<>> /\ ax.dtype \in {"integer", "boolean"}
    /\ ax.exact # <<>> /\ Supplied(ax) = {"exact"}

\* C19: a datatype spec of kind value adds a restriction whose filler is the
\* exact value as a value of the named type, for every exact value,
\* the integer 0 and the boolean false (0) among them.
C19_ValueFillerIsExact ==
    (lastAdd.called /\ IsValueSpec(lastAdd.batch[1])) =>
        LET ax == lastAdd.batch[1]
            l == onto.cls["A"].is_a
        IN /\ lastAdd.log[1].res = "added" /\ Len(l) = 2
           /\ l[2].prop = "dp" /\ l[2].ctype = "value"
           /\ l[2].filler = [k |-> "lit", base |-> ax.dtype, v |-> ax.exact[1]]

\* C20: when the user answers "y" at REPORT, the verbose pass changes neither
\* the live Store nor the file, and whatever the backend does in it the loop
\* goes on to INTERACT with the classes CHECK found (to the end of the pass
\* at once when there is no candidate).
C20_VerbosePassIsDisplayOnly ==
    [][ (pc = "REPORT" /\ loop'.last.ans = "y") =>
          /\ pc' \in {"INTERACT", "CHECK"}
          /\ onto' = onto
          /\ pc' = "INTERACT" => (file' = file /\ loop'.incon = loop.incon)
          /\ pc' = "CHECK" =>
                \A r \in 1..2 : \A c \in 1..Len(loop.incon) :
                    PotList(loop', onto, r, c) = <<>> ]_vars

\* C21: whenever the backend of a call of reasoning with save = True
\* completed normally and its raw list holds no class besides Nothing, the
\* snapshot with the inferred facts is written as the file and the live
\* Store is reloaded from it; a raw list that holds only Nothing included.
C21_CleanSuccessIsPersisted ==
    (/\ lastCall.called /\ ~lastCall.crashed /\ lastCall.save
     /\ Elems(lastCall.raw) \subseteq {"Nothing"}) =>
        /\ lastCall.wrote
        /\ file = [LoadSnapshot(lastCall.ontoBefore, lastCall.fileBefore)
                      EXCEPT !.inferred = TRUE]
        /\ onto = file

\* C22: during the loop the classes' axiom lists change only by a "y" answer:
\* CHECK, REPORT, "n" and "q" answers and the return leave every list as it
\* is, and a "y" answer takes the prompted axiom, which the prompted list of
\* the prompted class holds, out of that list and changes no other list.
C22_OnlyPromptedAxiomRemoved ==
    [][ /\ (pc \in {"CHECK", "REPORT", "DONE"}) => onto'.cls = onto.cls
        /\ (pc = "INTERACT" /\ loop'.last.ans # "y") => onto'.cls = onto.cls
        /\ (pc = "INTERACT" /\ loop'.last.ans = "y") =>
              LET c == loop.incon[loop.count]
                  rel == Rels[loop.rel]
                  ax == PotList(loop, onto, loop.rel, loop.count)[loop.idx]
              IN /\ loop'.last = [ans |-> "y", cls |-> c, rel |-> rel, ax |-> ax]
                 /\ Contains(onto.cls[c][rel], ax)
                 /\ onto'.cls = [onto.cls EXCEPT ![c][rel] = RemoveFirst(@, ax)] ]_vars

====
